---- MODULE Spec2Model ----
(***************************************************************************)
(* Quantum Jumper: the dimension/visibility state machine of               *)
(* GameSceneBuilder together with the object builders that feed it.        *)
(*                                                                         *)
(* JavaScript values are represented as follows.                           *)
(*   - the numbers of enum Dimension (LIGHT = 0, DARK = 1) are the strings *)
(*     "0" and "1", so that they can share a set with the string tags      *)
(*     "light", "dark", "both"; "undefined" is a missing property.         *)
(*     Falsy(v) says which of these JavaScript's `||` treats as false.     *)
(*   - score, lives, coin values and timestamps are integers; for these    *)
(*     `x || d` is  IF x = 0 THEN d ELSE x.                                *)
(*   - portal.lastActivated = 0 stands for the property being absent       *)
(*     (both are falsy in the cooldown test, Date.now() is never 0).       *)
(***************************************************************************)
EXTENDS Integers, FiniteSets, Sequences, TLC

\* ---------------------------------------------------------------- bounds
MaxEntities == 2      \* sprites a level script builds
MaxTime == 2000       \* the clock stops advancing past this many ms
MaxOverlaps == 3      \* overlap events delivered per sprite
MaxPortals == 1       \* portals built in the portal specification
MaxEffectTime == 25000  \* the scene clock stops past this many ms in the effects specification
MaxLevel == 3         \* levels a run of the built-version scene goes through

\* ------------------------------------------------------------ constants
LIGHT == "0"          \* Dimension.LIGHT = 0
DARK == "1"           \* Dimension.DARK = 1
PORTAL_COOLDOWN == 1000
BONUS_NUM == 1        \* the 0.5 of Math.floor(coinValue * 0.5), as BONUS_NUM / BONUS_DEN
BONUS_DEN == 2
DEFAULT_COIN_VALUE == 1
DEFAULT_SCORE == 0
DEFAULT_LIVES == 3
DEFAULT_MOVE_SPEED == 160
INVINCIBILITY_MS == 10000
COIN_SCORE == 1        \* COIN_VALUES[TileType.COIN] of the built version
MUSHROOM_SCORE == 50   \* the score boost of a generic powerup there

Handles == 1..MaxEntities

LEVEL1_KEY == "QuantumJumperScene"   \* the key of Level1Scene
LEVEL2_KEY == "Level2Scene"

VARIABLES
    currentDimension,  \* GameSceneBuilder.currentDimension
    player,            \* GameSceneBuilder.player and the properties stored on it
    ents,              \* the sprites built so far, by handle
    timers,            \* scene.time.delayedCall entries still pending (due times)
    now,               \* Date.now() / the scene clock, in ms
    raised,            \* the last operation threw out to its caller
    qj,                \* the built-version QuantumJumperScene: gameState, collectedItems, sprites
    scene              \* the level scene that is running and the listeners on its SPACE key

vars == <<currentDimension, player, ents, timers, now, raised, qj, scene>>

\* this.player before setMainPlayer
NoPlayer == [set |-> FALSE, lives |-> 0, score |-> 0, moveSpeed |-> 0, invincible |-> FALSE]

\* A slot no sprite has been built in.  The last four fields are history:
\* overlap events delivered to the sprite, invocations of its onActivate,
\* activations the portal accepted (callback or fallback switch) and the
\* time of the last one (0: none yet).
NoEntity ==
    [kind |-> "none", dimension |-> "undefined", value |-> 0, effect |-> "none",
     isActive |-> FALSE, onActivate |-> "null", lastActivated |-> 0,
     visible |-> FALSE, hasBody |-> FALSE, enable |-> FALSE,
     inGroup |-> FALSE, destroyed |-> FALSE,
     overlaps |-> 0, calls |-> 0, activations |-> 0, acceptedAt |-> 0]

\* `v || ...` takes the right operand for these.
Falsy(v) == v \in {"0", "undefined"}

\* (sprite as any).dimension || "both"
OrBoth(v) == IF Falsy(v) THEN "both" ELSE v

\* x || d for a number x
OrNum(x, d) == IF x = 0 THEN d ELSE x

\* shouldBeVisible of updateObjectDimensionVisibility
shouldBeVisible(dimension, cur) ==
    LET objectDimension == OrBoth(dimension)
        isLight == (cur = LIGHT)
    IN  \/ objectDimension = "both"
        \/ (objectDimension = "light" /\ isLight)
        \/ (objectDimension = "dark" /\ ~isLight)
        \/ (objectDimension = LIGHT /\ isLight)
        \/ (objectDimension = DARK /\ ~isLight)

\* a predicate that knows the enum values and "both" only
isObjectVisibleInCurrentDimension_EnumOnly(dimension, cur) ==
    LET objectDimension == OrBoth(dimension)
    IN  \/ objectDimension = "both"
        \/ (objectDimension = LIGHT /\ cur = LIGHT)
        \/ (objectDimension = DARK /\ cur = DARK)

\* isObjectVisibleInCurrentDimension
isObjectVisibleInCurrentDimension(dimension, cur) ==
    LET objectDimension == OrBoth(dimension)
        isLight == (cur = LIGHT)
    IN  \/ objectDimension = "both"
        \/ (objectDimension = "light" /\ isLight)
        \/ (objectDimension = "dark" /\ ~isLight)
        \/ (objectDimension = LIGHT /\ isLight)
        \/ (objectDimension = DARK /\ ~isLight)

\* a pass that hides and disables what is inactive and touches nothing else
applyVisibility_HideOnly(e, cur) ==
    IF shouldBeVisible(e.dimension, cur)
    THEN e
    ELSE [e EXCEPT !.visible = FALSE,
                   !.enable = IF e.hasBody THEN FALSE ELSE e.enable]

\* a pass that also switches a hidden portal off and a shown one on
applyVisibility_SetsIsActive(e, cur) ==
    LET v == shouldBeVisible(e.dimension, cur)
    IN  [e EXCEPT !.visible = v,
                  !.enable = IF e.hasBody THEN v ELSE e.enable,
                  !.isActive = IF e.kind = "portal" THEN v ELSE e.isActive]

\* one sprite of group.children.entries in updateObjectDimensionVisibility
applyVisibility(e, cur) ==
    LET v == shouldBeVisible(e.dimension, cur)
    IN  [e EXCEPT !.visible = v,
                  !.enable = IF e.hasBody THEN v ELSE e.enable]

\* updateDimensionVisuals with a player: the members of the four groups
updateDimensionVisuals(es, cur) ==
    [h \in Handles |->
        IF es[h].inGroup /\ ~es[h].destroyed
        THEN applyVisibility(es[h], cur)
        ELSE es[h]]

\* PlatformBuilder.setDimension: the strings "light"/"dark" become the enum
PlatformSetDimension(d) ==
    IF d = "light" THEN LIGHT
    ELSE IF d = "dark" THEN DARK
    ELSE d

\* --------------------------------------- built-version QuantumJumperScene

\* data/levelMaps: one level, the two maps of the modding guide; a tile that
\* can be collected is <<row, col, tileType>>, "C" a coin and "U" a powerup
LEVEL_MAPS ==
    << [d \in {LIGHT, DARK} |->
           IF d = LIGHT
           THEN {<<0, 9, "C">>, <<2, 4, "U">>}
           ELSE {<<0, 9, "U">>, <<2, 4, "C">>}] >>

Tiles == UNION {LEVEL_MAPS[i][d] : i \in 1..Len(LEVEL_MAPS), d \in {LIGHT, DARK}}

\* LEVEL_MAPS[(level - 1) % LEVEL_MAPS.length][dimension]
currentMap(g) == LEVEL_MAPS[((g.level - 1) % Len(LEVEL_MAPS)) + 1][g.dimension]

\* clearLevel then loadLevelFromMap: createTileObject makes a sprite for
\* every coin and powerup tile whose key is not in collectedItems
loadLevelFromMap(g, collected) ==
    {t \in currentMap(g) : <<g.level, t>> \notin collected}

createDefaultGameState ==
    [level |-> 1, score |-> 0, lives |-> 3, dimension |-> LIGHT,
     levelTransitioning |-> FALSE]

\* History of the level whose map the sprites were made from (loadedLevel):
\* awards[t] counts how often its collectible at tile t has changed the score.
\* Levels only go up, so the counts start over when another level's map is
\* loaded.
awardsAfterLoad(q, level) ==
    IF level = q.loadedLevel THEN q.awards ELSE [t \in Tiles |-> 0]

\* create(): initializeGameState makes collectedItems a new Set, generateLevel
\* clears levelTransitioning and loads the map
createScene(g) ==
    [gameState |-> [g EXCEPT !.levelTransitioning = FALSE],
     collectedItems |-> {},
     collectibles |-> loadLevelFromMap(g, {}),
     startPending |-> FALSE,
     loadedLevel |-> g.level,
     awards |-> [t \in Tiles |-> 0]]

\* the scene started again carries the history with it
restartScene(q) ==
    [createScene(q.gameState) EXCEPT !.awards = awardsAfterLoad(q, q.gameState.level)]

\* update() with SPACE just pressed
handleDimensionShift ==
    /\ LET g == [qj.gameState EXCEPT
                    !.dimension = IF @ = LIGHT THEN DARK ELSE LIGHT]
       IN  qj' = [qj EXCEPT !.gameState = g,
                            !.collectibles = loadLevelFromMap(g, qj.collectedItems),
                            !.loadedLevel = g.level,
                            !.awards = awardsAfterLoad(qj, g.level)]
    /\ UNCHANGED <<currentDimension, player, ents, timers, now, raised, scene>>

\* COIN_VALUES[tileType] || 1 for a coin, the score boost of a powerup
tileScore(t) == IF t[3] = "C" THEN COIN_SCORE ELSE MUSHROOM_SCORE

\* collectCoin / collectPowerup on the overlap of the player with sprite t
collectTile(t) ==
    /\ t \in qj.collectibles
    /\ LET key == <<qj.gameState.level, t>>
       IN  qj' = [qj EXCEPT
                     !.collectedItems = @ \cup {key},
                     !.collectibles = @ \ {t},
                     !.gameState.score = @ + tileScore(t),
                     !.awards[t] = @ + 1]
    /\ UNCHANGED <<currentDimension, player, ents, timers, now, raised, scene>>

\* nextLevel(): the next scene is started by a delayedCall 2000 ms later
nextLevel(q) ==
    [q EXCEPT !.gameState.level = @ + 1,
              !.gameState.lives = @ + 1,
              !.collectedItems = {},
              !.startPending = TRUE]

\* a portal check that does not look at levelTransitioning
portalAccepts_Always(g) == TRUE

\* handleCollisions, with the player's bounds intersecting those of the
\* visible portal: portal?.visible && !levelTransitioning && intersects
portalAccepts(g) == ~g.levelTransitioning

\* handleCollisions: the player is in the portal
reachPortal ==
    /\ portalAccepts(qj.gameState)
    /\ qj.gameState.level < MaxLevel
    /\ qj' = nextLevel([qj EXCEPT !.gameState.levelTransitioning = TRUE])
    /\ UNCHANGED <<currentDimension, player, ents, timers, now, raised, scene>>

\* the delayedCall of nextLevel comes due: gameState goes through the registry
\* and LoadingScene into a scene created anew
startNextScene ==
    /\ qj.startPending
    /\ qj' = restartScene(qj)
    /\ UNCHANGED <<currentDimension, player, ents, timers, now, raised, scene>>

\* the first handle no sprite was built in (0 when the level is full)
FreeHandle ==
    IF \E h \in Handles : ents[h].kind = "none"
    THEN CHOOSE h \in Handles :
            /\ ents[h].kind = "none"
            /\ \A g \in Handles : g < h => ents[g].kind # "none"
    ELSE 0

Init ==
    /\ currentDimension = LIGHT
    /\ player = NoPlayer
    /\ ents = [h \in Handles |-> NoEntity]
    /\ timers = {}
    /\ now = 1
    /\ raised = FALSE
    /\ qj = createScene(createDefaultGameState)
    /\ scene = [key |-> LEVEL1_KEY, spaceListeners |-> 0, starts |-> 0]

\* PlatformBuilder.build, after setDimension(d) and setVisible()/setInvisible()
BuildPlatform(d, isVisible) ==
    /\ FreeHandle # 0
    /\ ents' = [ents EXCEPT ![FreeHandle] =
                  [NoEntity EXCEPT !.kind = "platform",
                                   !.dimension = PlatformSetDimension(d),
                                   !.visible = isVisible,
                                   !.hasBody = TRUE, !.enable = TRUE,
                                   !.inGroup = TRUE]]
    /\ raised' = FALSE
    /\ UNCHANGED <<currentDimension, player, timers, now, qj, scene>>

\* CoinBuilder.build, after setDimension(d) and value(v)
BuildCoin(d, v) ==
    /\ FreeHandle # 0
    /\ ents' = [ents EXCEPT ![FreeHandle] =
                  [NoEntity EXCEPT !.kind = "coin", !.dimension = d, !.value = v,
                                   !.visible = TRUE,
                                   !.hasBody = TRUE, !.enable = TRUE,
                                   !.inGroup = TRUE]]
    /\ raised' = FALSE
    /\ UNCHANGED <<currentDimension, player, timers, now, qj, scene>>

\* PowerupBuilder.build, after setDimension(d) and ofType/withEffect
BuildPowerup(d, effect) ==
    /\ FreeHandle # 0
    /\ ents' = [ents EXCEPT ![FreeHandle] =
                  [NoEntity EXCEPT !.kind = "powerup", !.dimension = d,
                                   !.effect = effect,
                                   !.visible = TRUE,
                                   !.hasBody = TRUE, !.enable = TRUE,
                                   !.inGroup = TRUE]]
    /\ raised' = FALSE
    /\ UNCHANGED <<currentDimension, player, timers, now, qj, scene>>

\* PortalBuilder.build: a plain sprite, in no group and without a body
BuildPortal(d, active, cb) ==
    /\ FreeHandle # 0
    /\ ents' = [ents EXCEPT ![FreeHandle] =
                  [NoEntity EXCEPT !.kind = "portal", !.dimension = d,
                                   !.isActive = active, !.onActivate = cb,
                                   !.visible = TRUE]]
    /\ raised' = FALSE
    /\ UNCHANGED <<currentDimension, player, timers, now, qj, scene>>

\* registerPortal: portals.add gives the sprite an enabled static body
registerPortal(h) ==
    /\ ents[h].kind = "portal"
    /\ ~ents[h].inGroup
    /\ ents' = [ents EXCEPT ![h].inGroup = TRUE, ![h].hasBody = TRUE,
                            ![h].enable = TRUE]
    /\ raised' = FALSE
    /\ UNCHANGED <<currentDimension, player, timers, now, qj, scene>>

\* GameSceneBuilder.setMainPlayer with a player built by PlayerBuilder
\* (levels call it once)
setMainPlayer(l, s, sp) ==
    /\ ~player.set
    /\ player' = [set |-> TRUE, lives |-> l, score |-> s, moveSpeed |-> sp,
                  invincible |-> FALSE]
    /\ ents' = updateDimensionVisuals(ents, currentDimension)
    /\ raised' = FALSE
    /\ UNCHANGED <<currentDimension, timers, now, qj, scene>>

\* the body shared by switchDimension, setDimension and
\* updateAllObjectVisibility once currentDimension is d: without a player
\* updateDimensionVisuals throws at this.player.setTint, before any sprite
\* is touched
reapply(d) ==
    /\ currentDimension' = d
    /\ IF player.set
       THEN /\ ents' = updateDimensionVisuals(ents, d)
            /\ raised' = FALSE
       ELSE /\ ents' = ents
            /\ raised' = TRUE

\* a switch that passes through a third state
toggled_Cycle(d) ==
    IF d = LIGHT THEN DARK ELSE IF d = DARK THEN "both" ELSE LIGHT

\* a switch that always ends in Dark
toggled_ToDark(d) == DARK

\* oldDimension === Dimension.LIGHT ? Dimension.DARK : Dimension.LIGHT
toggled(d) == IF d = LIGHT THEN DARK ELSE LIGHT

switchDimension ==
    /\ reapply(toggled(currentDimension))
    /\ UNCHANGED <<player, timers, now, qj, scene>>

setDimension(d) ==
    /\ reapply(d)
    /\ UNCHANGED <<player, timers, now, qj, scene>>

updateAllObjectVisibility ==
    /\ reapply(currentDimension)
    /\ UNCHANGED <<player, timers, now, qj, scene>>

\* ------------------------------------------------- interaction handlers

\* sprite.destroy(): the sprite leaves its group and loses its body; the
\* properties the builders stored on it stay readable
destroySprite(e) ==
    [e EXCEPT !.destroyed = TRUE, !.inGroup = FALSE, !.hasBody = FALSE,
              !.enable = FALSE]

\* setScore(points, true) with a player: currentScore = score || 0
addScore(p, points) == [p EXCEPT !.score = OrNum(p.score, DEFAULT_SCORE) + points]

\* setLives(n, true) that trusts the stored value (no `|| 3`)
addLives_NoDefault(p, n) == [p EXCEPT !.lives = p.lives + n]

\* setLives(n, true) with a player: currentLives = lives || 3
addLives(p, n) == [p EXCEPT !.lives = OrNum(p.lives, DEFAULT_LIVES) + n]

\* handleCoinCollection: the points it passes to addScore
coinAward(e, cur) ==
    LET coinValue == OrNum(e.value, DEFAULT_COIN_VALUE)
        coinDimension == OrBoth(e.dimension)
    IN  IF coinDimension = cur
        THEN coinValue + ((coinValue * BONUS_NUM) \div BONUS_DEN)
        ELSE coinValue

\* handlePowerupCollection: the switch on effect.  moveSpeed is kept in
\* 1/64 px/s so that the repeated * 1.5 stays exact.
powerupEffect(p, effect) ==
    CASE effect \in {"extra-life", "1up"} -> addLives(p, 1)
      [] effect = "speed" ->
            [p EXCEPT !.moveSpeed = (OrNum(p.moveSpeed, DEFAULT_MOVE_SPEED * 64) * 3) \div 2]
      [] effect = "invincibility" -> [p EXCEPT !.invincible = TRUE]
      [] OTHER -> p

\* handlePowerupCollection: the delayedCall it schedules
powerupTimers(ts, effect, t) ==
    IF effect = "invincibility" THEN ts \cup {t + INVINCIBILITY_MS} ELSE ts

\* A guard that also rejects the overlap arriving exactly PORTAL_COOLDOWN ms
\* after the last activation.
handlePortalCollision_InclusiveCooldown(e, t) ==
    IF ~e.isActive
    THEN [portal |-> e, switch |-> FALSE, escaped |-> FALSE]
    ELSE IF e.lastActivated # 0 /\ t - e.lastActivated <= PORTAL_COOLDOWN
    THEN [portal |-> e, switch |-> FALSE, escaped |-> FALSE]
    ELSE LET committed == [e EXCEPT !.lastActivated = t]
         IN  IF e.onActivate # "null"
             THEN [portal |-> [committed EXCEPT !.calls = @ + 1],
                   switch |-> FALSE, escaped |-> FALSE]
             ELSE [portal |-> committed, switch |-> TRUE, escaped |-> FALSE]

\* A guard that does not look at portal.isActive.
handlePortalCollision_IgnoresIsActive(e, t) ==
    IF e.lastActivated # 0 /\ t - e.lastActivated < PORTAL_COOLDOWN
    THEN [portal |-> e, switch |-> FALSE, escaped |-> FALSE]
    ELSE LET committed == [e EXCEPT !.lastActivated = t]
         IN  IF e.onActivate # "null"
             THEN [portal |-> [committed EXCEPT !.calls = @ + 1],
                   switch |-> FALSE, escaped |-> FALSE]
             ELSE [portal |-> committed, switch |-> TRUE, escaped |-> FALSE]

\* Invoke-then-commit without the try/catch: a callback that throws leaves
\* the handler before lastActivated is written.
handlePortalCollision_InvokeFirst(e, t) ==
    IF ~e.isActive
    THEN [portal |-> e, switch |-> FALSE, escaped |-> FALSE]
    ELSE IF e.lastActivated # 0 /\ t - e.lastActivated < PORTAL_COOLDOWN
    THEN [portal |-> e, switch |-> FALSE, escaped |-> FALSE]
    ELSE IF e.onActivate = "throws"
    THEN [portal |-> [e EXCEPT !.calls = @ + 1],
          switch |-> FALSE, escaped |-> TRUE]
    ELSE IF e.onActivate # "null"
    THEN [portal |-> [e EXCEPT !.calls = @ + 1, !.lastActivated = t],
          switch |-> FALSE, escaped |-> FALSE]
    ELSE [portal |-> [e EXCEPT !.lastActivated = t],
          switch |-> TRUE, escaped |-> FALSE]

\* A handler that falls through to the dimension switch after the callback.
handlePortalCollision_SwitchAfterCallback(e, t) ==
    IF ~e.isActive
    THEN [portal |-> e, switch |-> FALSE, escaped |-> FALSE]
    ELSE IF e.lastActivated # 0 /\ t - e.lastActivated < PORTAL_COOLDOWN
    THEN [portal |-> e, switch |-> FALSE, escaped |-> FALSE]
    ELSE LET committed == [e EXCEPT !.lastActivated = t]
         IN  IF e.onActivate # "null"
             THEN [portal |-> [committed EXCEPT !.calls = @ + 1],
                   switch |-> TRUE, escaped |-> FALSE]
             ELSE [portal |-> committed, switch |-> TRUE, escaped |-> FALSE]

\* handlePortalCollision on portal e at time t.  Result: the portal
\* afterwards, whether the fallback switchDimension() runs, and whether an
\* error leaves the handler.  A callback is "custom" (returns) or "throws".
handlePortalCollision(e, t) ==
    IF ~e.isActive
    THEN [portal |-> e, switch |-> FALSE, escaped |-> FALSE]
    ELSE IF e.lastActivated # 0 /\ t - e.lastActivated < PORTAL_COOLDOWN
    THEN [portal |-> e, switch |-> FALSE, escaped |-> FALSE]
    ELSE LET committed == [e EXCEPT !.lastActivated = t]
         IN  IF e.onActivate # "null"
             THEN \* try { onActivate() } catch (error) { console.error }
                  [portal |-> [committed EXCEPT !.calls = @ + 1],
                   switch |-> FALSE, escaped |-> FALSE]
             ELSE [portal |-> committed, switch |-> TRUE, escaped |-> FALSE]

\* the overlap closures of setupPlayerCollisions, called with sprite h
overlapCallback(h) ==
    LET e == ents[h]
        seen == [ents EXCEPT ![h].overlaps = @ + 1]
        ok == isObjectVisibleInCurrentDimension(e.dimension, currentDimension)
    IN  CASE e.kind = "coin" /\ ok ->
               /\ ents' = [seen EXCEPT ![h] = destroySprite(@)]
               /\ player' = addScore(player, coinAward(e, currentDimension))
               /\ raised' = FALSE
               /\ UNCHANGED <<currentDimension, timers>>
          [] e.kind = "powerup" /\ ok ->
               /\ ents' = [seen EXCEPT ![h] = destroySprite(@)]
               /\ player' = powerupEffect(player, e.effect)
               /\ timers' = powerupTimers(timers, e.effect, now)
               /\ raised' = FALSE
               /\ UNCHANGED <<currentDimension>>
          [] e.kind = "portal" /\ ok ->
               LET r == handlePortalCollision(seen[h], now)
                   accepted == r.switch \/ r.portal.calls > e.calls
                   es == [seen EXCEPT ![h] =
                            IF accepted
                            THEN [r.portal EXCEPT !.activations = @ + 1,
                                                  !.acceptedAt = now]
                            ELSE r.portal]
               IN  /\ currentDimension' =
                        (IF r.switch THEN toggled(currentDimension)
                                     ELSE currentDimension)
                   /\ ents' = (IF r.switch
                               THEN updateDimensionVisuals(es, currentDimension')
                               ELSE es)
                   /\ raised' = r.escaped
                   /\ UNCHANGED <<player, timers>>
          [] OTHER ->
               /\ ents' = seen
               /\ raised' = FALSE
               /\ UNCHANGED <<currentDimension, player, timers>>

\* What the overlap with sprite h leaves on the scene: the callback of
\* goesToNextLevel, when the handler has invoked it, shows the completion
\* text and adds one more once("down") listener to the scene's SPACE key
afterCallback(h) ==
    IF /\ ents[h].onActivate = "nextLevel"
       /\ ents'[h].calls > ents[h].calls
    THEN [scene EXCEPT !.spaceListeners = @ + 1]
    ELSE scene

\* The physics step reports an overlap of the player with a member of the
\* collectibles, powerups or portals group whose body is enabled.
Overlap(h) ==
    /\ player.set
    /\ ents[h].kind \in {"coin", "powerup", "portal"}
    /\ ents[h].inGroup /\ ents[h].enable
    /\ ents[h].overlaps < MaxOverlaps
    /\ overlapCallback(h)
    /\ scene' = afterCallback(h)
    /\ UNCHANGED <<now, qj>>

\* An overlap that reaches the callback late: its sprite was in the group
\* when the event arose and has been disabled or destroyed since.
StaleOverlap(h) ==
    /\ player.set
    /\ ents[h].kind \in {"coin", "powerup", "portal"}
    /\ ents[h].destroyed \/ (ents[h].inGroup /\ ~ents[h].enable)
    /\ ents[h].overlaps < MaxOverlaps
    /\ overlapCallback(h)
    /\ scene' = afterCallback(h)
    /\ UNCHANGED <<now, qj>>

\* getLives
getLives(p) == IF p.set THEN OrNum(p.lives, DEFAULT_LIVES) ELSE DEFAULT_LIVES

\* isGameOver
isGameOver(p) == getLives(p) <= 0

\* respawnPlayer: addLives(-1); without a player it returns at once
respawnPlayer ==
    /\ player' = (IF player.set THEN addLives(player, -1) ELSE player)
    /\ raised' = FALSE
    /\ UNCHANGED <<currentDimension, ents, timers, now, qj, scene>>

\* respawnPlayerAtPixels: lives = (lives || 3) - 1
respawnPlayerAtPixels ==
    /\ player' = (IF player.set
                  THEN [player EXCEPT !.lives = OrNum(player.lives, DEFAULT_LIVES) - 1]
                  ELSE player)
    /\ raised' = FALSE
    /\ UNCHANGED <<currentDimension, ents, timers, now, qj, scene>>

\* Level1Scene.checkPlayerDeath on a frame in which the player has fallen out
\* of the world: respawn while isGameOver() is false, else the game-over
\* branch (a message and a restart scheduled; nothing of this state changes)
checkPlayerDeath ==
    /\ player.set
    /\ IF ~isGameOver(player)
       THEN respawnPlayer
       ELSE UNCHANGED vars

\* createGameScene(this) at the top of a level scene's create(): a builder
\* of its own, in Light and without a player; the timers of the scene that
\* was shut down are gone
freshBuilder ==
    /\ currentDimension' = LIGHT
    /\ ents' = [h \in Handles |-> NoEntity]
    /\ timers' = {}

\* Level1Scene.create up to createGameScene; the level script follows
Level1SceneCreate ==
    /\ freshBuilder
    /\ player' = NoPlayer
    /\ raised' = FALSE

\* Level2Scene.create: createLevel2 builds the player (3 lives, score 0,
\* speed 220), calls setMainPlayer and setScore, and then calls withLives on
\* the GameSceneBuilder that setScore returned, which has no such method: the
\* TypeError leaves create() before createLevel2Layout and the final pass
Level2SceneCreate ==
    /\ freshBuilder
    /\ player' = [set |-> TRUE, lives |-> 3, score |-> 0,
                  moveSpeed |-> 220 * 64, invincible |-> FALSE]
    /\ raised' = TRUE

\* the scene goesToNextLevel leads to from scene k
nextSceneKey(k) == IF k = LEVEL2_KEY THEN LEVEL1_KEY ELSE LEVEL2_KEY

\* SPACE goes down: every once("down") listener the callbacks have added runs
\* and calls scene.start(nextScene); the next scene is created
PressSpace ==
    /\ scene.spaceListeners > 0
    /\ scene' = [key |-> nextSceneKey(scene.key), spaceListeners |-> 0,
                 starts |-> scene.spaceListeners]
    /\ IF nextSceneKey(scene.key) = LEVEL2_KEY
       THEN Level2SceneCreate
       ELSE Level1SceneCreate
    /\ UNCHANGED <<now, qj>>

\* time passes
Tick(d) ==
    /\ now + d <= MaxTime
    /\ now' = now + d
    /\ raised' = FALSE
    /\ UNCHANGED <<currentDimension, player, ents, timers, qj, scene>>

\* the scene clock advances by d ms: every delayedCall that has come due
\* runs its callback, (player as any).invincible = false, and is dropped
Elapse(d) ==
    /\ now + d <= MaxEffectTime
    /\ now' = now + d
    /\ timers' = {t \in timers : t > now + d}
    /\ player' = (IF \E t \in timers : t <= now + d
                  THEN [player EXCEPT !.invincible = FALSE]
                  ELSE player)
    /\ raised' = FALSE
    /\ UNCHANGED <<currentDimension, ents, qj, scene>>

PlatformTags == {LIGHT, DARK, "light", "dark", "both"}
BuilderTags == {LIGHT, DARK, "both"}
PortalTags == {"light", "dark", "both"}

NextDim ==
    \/ \E d \in PlatformTags, v \in BOOLEAN : BuildPlatform(d, v)
    \/ \E d \in BuilderTags : BuildCoin(d, 1)
    \/ \E d \in BuilderTags : BuildPowerup(d, "none")
    \/ \E d \in PortalTags : BuildPortal(d, TRUE, "null")
    \/ \E h \in Handles : registerPortal(h)
    \/ setMainPlayer(3, 0, 200 * 64)
    \/ switchDimension
    \/ \E d \in {LIGHT, DARK} : setDimension(d)
    \/ updateAllObjectVisibility

SpecDim == Init /\ [][NextDim]_vars

CoinValues == {0, 1, 5}
TickSteps == {999, 1000}

\* collecting: coins, powerups and portals under overlap events
NextPlay ==
    \/ \E d \in BuilderTags, v \in CoinValues : BuildCoin(d, v)
    \/ \E d \in BuilderTags : BuildPowerup(d, "extra-life")
    \/ \E d \in PortalTags, cb \in {"null", "custom"} : BuildPortal(d, TRUE, cb)
    \/ \E h \in Handles : registerPortal(h)
    \/ setMainPlayer(3, 0, 200 * 64)
    \/ switchDimension
    \/ \E h \in Handles : Overlap(h)
    \/ \E h \in Handles : StaleOverlap(h)

SpecPlay == Init /\ [][NextPlay]_vars

\* portals under overlap events as time passes
NextPortal ==
    \/ \E d \in PortalTags, a \in BOOLEAN, cb \in {"null", "custom", "throws"} :
          /\ Cardinality({h \in Handles : ents[h].kind = "portal"}) < MaxPortals
          /\ BuildPortal(d, a, cb)
    \/ \E h \in Handles : registerPortal(h)
    \/ setMainPlayer(3, 0, 200 * 64)
    \/ switchDimension
    \/ \E h \in Handles : Overlap(h)
    \/ \E h \in Handles : StaleOverlap(h)
    \/ \E d \in TickSteps : Tick(d)

SpecPortal == Init /\ [][NextPortal]_vars

StartLives == {0, 1, 3}

\* lives and score: deaths, extra lives and coins
NextLives ==
    \/ \E d \in {DARK, "both"} : BuildPowerup(d, "extra-life")
    \/ \E v \in {1, 5} : BuildCoin("both", v)
    \/ \E l \in StartLives : setMainPlayer(l, 0, 200 * 64)
    \/ switchDimension
    \/ respawnPlayer
    \/ respawnPlayerAtPixels
    \/ \E h \in Handles : Overlap(h)
    \/ \E h \in Handles : StaleOverlap(h)

SpecLives == Init /\ [][NextLives]_vars

\* the controller under switches made by the X key and by portals without
\* a callback: every change of currentDimension is a switchDimension() call
NextToggle ==
    \/ \E d \in PortalTags : BuildPortal(d, TRUE, "null")
    \/ BuildCoin(DARK, 1)
    \/ \E h \in Handles : registerPortal(h)
    \/ setMainPlayer(3, 0, 200 * 64)
    \/ switchDimension
    \/ \E h \in Handles : Overlap(h)
    \/ \E h \in Handles : StaleOverlap(h)

SpecToggle == Init /\ [][NextToggle]_vars

\* the controller under every operation that writes currentDimension
NextCtl ==
    \/ \E d \in PortalTags : BuildPortal(d, TRUE, "null")
    \/ \E d \in BuilderTags : BuildCoin(d, 1)
    \/ \E d \in BuilderTags : BuildPlatform(d, TRUE)
    \/ \E h \in Handles : registerPortal(h)
    \/ setMainPlayer(3, 0, 200 * 64)
    \/ switchDimension
    \/ \E d \in {LIGHT, DARK} : setDimension(d)
    \/ \E h \in Handles : Overlap(h)
    \/ \E h \in Handles : StaleOverlap(h)

SpecCtl == Init /\ [][NextCtl]_vars

\* a tag left unset, and one that is none of the values the predicates know
RawTags == {"undefined", "LIGHT"}

\* sprites whose tag did not come from the builders' tag types
NextTags ==
    \/ \E d \in RawTags : BuildCoin(d, 1)
    \/ \E d \in RawTags : BuildPlatform(d, TRUE)
    \/ setMainPlayer(3, 0, 200 * 64)
    \/ switchDimension
    \/ updateAllObjectVisibility
    \/ \E h \in Handles : Overlap(h)
    \/ \E h \in Handles : StaleOverlap(h)

SpecTags == Init /\ [][NextTags]_vars

PLAYER_START_SPEED == 200
TimedEffects == {"invincibility", "fire-power", "speed"}
EffectSteps == {5000, 10000}

\* powerups with time-bounded effects as the scene clock runs
NextEffects ==
    \/ \E e \in TimedEffects : BuildPowerup("both", e)
    \/ setMainPlayer(3, 0, PLAYER_START_SPEED * 64)
    \/ \E h \in Handles : Overlap(h)
    \/ \E d \in EffectSteps : Elapse(d)

\* the scene clock keeps running
SpecEffects ==
    Init /\ [][NextEffects]_vars /\ WF_vars(\E d \in EffectSteps : Elapse(d))

\* the built-version scene: shifts, collections, portals and scene starts
NextQJ ==
    \/ handleDimensionShift
    \/ \E t \in Tiles : collectTile(t)
    \/ reachPortal
    \/ startNextScene

SpecQJ == Init /\ [][NextQJ]_vars

\* every value the predicates can find in sprite.dimension
StoredTags == {LIGHT, DARK, "light", "dark", "both", "undefined", "LIGHT"}

\* the two predicates over every stored tag
NextPred ==
    \/ \E d \in StoredTags : BuildCoin(d, 1)
    \/ setMainPlayer(3, 0, 200 * 64)
    \/ switchDimension
    \/ updateAllObjectVisibility
    \/ \E h \in Handles : Overlap(h)

SpecPred == Init /\ [][NextPred]_vars

\* a player who keeps dying: coins may be collected, extra lives do not exist
NextDeath ==
    \/ \E v \in CoinValues : BuildCoin("both", v)
    \/ \E l \in StartLives : setMainPlayer(l, 0, 200 * 64)
    \/ checkPlayerDeath
    \/ \E h \in Handles : Overlap(h)

\* the player falls on infinitely many frames
SpecDeath ==
    Init /\ [][NextDeath]_vars /\ WF_vars(checkPlayerDeath)

\* a level with exit portals, played until SPACE takes the player on
NextScenes ==
    \/ \E d \in PortalTags, cb \in {"null", "nextLevel"} :
          scene.key = LEVEL1_KEY /\ BuildPortal(d, TRUE, cb)
    \/ scene.key = LEVEL1_KEY /\ BuildCoin("both", 1)
    \/ \E h \in Handles : scene.key = LEVEL1_KEY /\ registerPortal(h)
    \/ scene.key = LEVEL1_KEY /\ setMainPlayer(3, 0, 200 * 64)
    \/ switchDimension
    \/ \E h \in Handles : Overlap(h)
    \/ \E d \in TickSteps : Tick(d)
    \/ PressSpace

SpecScenes == Init /\ [][NextScenes]_vars

\* the controller's operations among everything they must leave alone
NextFrame ==
    \/ \E v \in {1, 5} : BuildCoin("both", v)
    \/ BuildPowerup(DARK, "invincibility")
    \/ \E d \in {"light", "both"} : BuildPortal(d, TRUE, "custom")
    \/ \E h \in Handles : registerPortal(h)
    \/ setMainPlayer(1, 0, 200 * 64)
    \/ switchDimension
    \/ \E d \in {LIGHT, DARK} : setDimension(d)
    \/ \E h \in Handles : Overlap(h)

SpecFrame == Init /\ [][NextFrame]_vars

\* ================================================================ claims

\* The activity table of the design: a Light entity is active only in
\* Light, a Dark entity only in Dark, anything else always.
TruthTable(tag, cur) ==
    CASE tag \in {LIGHT, "light"} -> cur = LIGHT
      [] tag \in {DARK, "dark"} -> cur = DARK
      [] OTHER -> TRUE

\* an overlap event, of either kind, is delivered for sprite h in this step
OverlapStep(h) == Overlap(h) \/ StaleOverlap(h)

\* h is a member of one of the four groups
Registered(h) == ents[h].inGroup /\ ~ents[h].destroyed

\* ------------------------------------------------------------------ C1
\* C1: for every tag the builders store (Dimension.LIGHT, Dimension.DARK,
\* "both") and either current dimension, the predicate of the re-apply pass
\* agrees with the truth table.
C1_ActivityMatchesTruthTable ==
    \A h \in Handles :
        (ents[h].kind \in {"platform", "coin", "powerup"}
            /\ ents[h].dimension \in BuilderTags)
        => (shouldBeVisible(ents[h].dimension, currentDimension)
                = TruthTable(ents[h].dimension, currentDimension))

\* ------------------------------------------------------------------ C2
\* C2: right after a switchDimension() or setDimension() call (made once
\* the player is set), every registered entity has
\* visible = enable = isActive(tag, currentDimension).
C2_ConsistentAfterSwitch ==
    [][((switchDimension \/ \E d \in {LIGHT, DARK} : setDimension(d))
            /\ player.set)
        => \A h \in Handles :
              (ents'[h].inGroup /\ ~ents'[h].destroyed)
              => /\ ents'[h].visible
                      = TruthTable(ents'[h].dimension, currentDimension')
                 /\ ents'[h].enable
                      = TruthTable(ents'[h].dimension, currentDimension')]_vars

\* ------------------------------------------------------------------ C3
\* the first sprite is a platform built with setDimension(Dimension.LIGHT),
\* the second one with setDimension(Dimension.DARK)
LightDarkPair ==
    /\ ents[1].kind = "platform" /\ ents[1].dimension = LIGHT
    /\ ents[2].kind = "platform" /\ ents[2].dimension = DARK

\* C3: with a Light and a Dark platform of which exactly one is active,
\* a switchDimension() call leaves exactly one active, and it is the other
\* one.
C3_ExactlyOneActive ==
    [][(switchDimension /\ player.set /\ LightDarkPair
            /\ ents[1].enable # ents[2].enable)
        => /\ ents'[1].enable # ents'[2].enable
           /\ ents'[1].enable = ents[2].enable]_vars

\* ------------------------------------------------------------------ C4
\* C4: an overlap event for a registered coin, powerup or portal whose tag
\* is not active in the current dimension changes neither the player
\* (score, lives, effects) nor currentDimension, runs no callback, and
\* leaves the sprite registered.
C4_InactiveOverlapNoEffect ==
    [][\A h \in Handles :
          (OverlapStep(h) /\ Registered(h)
              /\ ~TruthTable(ents[h].dimension, currentDimension))
          => /\ player' = player
             /\ currentDimension' = currentDimension
             /\ ents'[h].calls = ents[h].calls
             /\ ents'[h].inGroup /\ ~ents'[h].destroyed]_vars

\* ------------------------------------------------------------------ C5
\* C5: an overlap event that references an already destroyed coin or
\* powerup changes neither score nor lives nor any player effect, and
\* schedules nothing.
C5_NoSecondCollection ==
    [][\A h \in Handles :
          (OverlapStep(h) /\ ents[h].destroyed)
          => (player' = player /\ timers' = timers)]_vars

\* ------------------------------------------------------------------ C6
\* C6: collecting a coin of positive value built with Dimension.LIGHT
\* while the current dimension is Light, or built with Dimension.DARK while
\* it is Dark, raises the score by value + floor(value * 0.5).
C6_SameDimensionBonus ==
    [][\A h \in Handles :
          (OverlapStep(h) /\ Registered(h) /\ ents[h].kind = "coin"
              /\ ents[h].value > 0
              /\ ents[h].dimension \in {LIGHT, DARK}
              /\ ents[h].dimension = currentDimension)
          => player'.score
                = player.score + ents[h].value
                    + ((ents[h].value * BONUS_NUM) \div BONUS_DEN)]_vars

\* ------------------------------------------------------------------ C7
\* C7: collecting a coin tagged "both" raises the score by the coin's
\* value only, in either dimension.
C7_BothCoinNoBonus ==
    [][\A h \in Handles :
          (OverlapStep(h) /\ Registered(h) /\ ents[h].kind = "coin"
              /\ ents[h].dimension = "both")
          => player'.score = player.score + ents[h].value]_vars

\* C7 for coins whose value is at least 1 (the part about the bonus alone)
C7_BothCoinNoBonusPositive ==
    [][\A h \in Handles :
          (OverlapStep(h) /\ Registered(h) /\ ents[h].kind = "coin"
              /\ ents[h].dimension = "both" /\ ents[h].value > 0)
          => player'.score = player.score + ents[h].value]_vars

\* ------------------------------------------------------------------ C8
\* C8: an overlap with an active portal that is visible in the current
\* dimension is accepted iff no activation was accepted in the preceding
\* PORTAL_COOLDOWN ms; a portal with a callback invokes it once per
\* accepted overlap and not otherwise.
C8_PortalCooldown ==
    [][\A h \in Handles :
          (OverlapStep(h) /\ Registered(h) /\ ents[h].kind = "portal"
              /\ ents[h].isActive
              /\ TruthTable(ents[h].dimension, currentDimension))
          => LET accepted == ents'[h].activations = ents[h].activations + 1
                 rejected == ents'[h].activations = ents[h].activations
                 invoked == ents'[h].calls - ents[h].calls
             IN  /\ accepted \/ rejected
                 /\ accepted <=> (\/ ents[h].acceptedAt = 0
                                  \/ now - ents[h].acceptedAt >= PORTAL_COOLDOWN)
                 /\ ents[h].onActivate # "null"
                      => invoked = (IF accepted THEN 1 ELSE 0)]_vars

\* a portal that is always visible took three overlaps: one accepted, one
\* inside the window rejected, one after the window accepted
C8_Witness ==
    \E h \in Handles :
        /\ ents[h].kind = "portal" /\ ents[h].isActive
        /\ ents[h].dimension = "both" /\ ents[h].onActivate = "custom"
        /\ ents[h].overlaps = 3 /\ ents[h].calls = 2
        /\ ents[h].activations = 2
        /\ ents[h].acceptedAt > PORTAL_COOLDOWN

\* ------------------------------------------------------------------ C9
\* C9: a portal built inactive never invokes its callback, never records
\* an activation, never switches the dimension on an overlap, and is still
\* inactive after every step.
C9_InactivePortalInert ==
    [][\A h \in Handles :
          /\ (ents'[h].kind = "portal" /\ ~ents'[h].isActive)
                => /\ ents'[h].calls = 0
                   /\ ents'[h].activations = 0
                   /\ ents'[h].lastActivated = 0
          /\ (ents[h].kind = "portal" /\ ~ents[h].isActive)
                => /\ ~ents'[h].isActive
                   /\ OverlapStep(h) => currentDimension' = currentDimension]_vars

\* an inactive registered portal, visible and with its body enabled, took
\* three overlaps
C9_Witness ==
    \E h \in Handles :
        /\ ents[h].kind = "portal" /\ ~ents[h].isActive
        /\ ents[h].inGroup /\ ents[h].dimension = "both"
        /\ ents[h].overlaps = 3
        /\ ents[h].visible /\ ents[h].enable
        /\ now > PORTAL_COOLDOWN

\* ----------------------------------------------------------------- C10
\* C10: an overlap with a portal whose callback throws never lets the
\* error out of the handler; when it is accepted lastActivated is the
\* activation time afterwards; and an overlap less than PORTAL_COOLDOWN ms
\* after an accepted one does not invoke the callback.
C10_CommitThenInvoke ==
    [][\A h \in Handles :
          (OverlapStep(h) /\ Registered(h) /\ ents[h].kind = "portal"
              /\ ents[h].onActivate = "throws")
          => /\ ~raised'
             /\ ents'[h].calls > ents[h].calls
                  => (ents'[h].lastActivated = now
                        /\ ents'[h].calls = ents[h].calls + 1)
             /\ (ents[h].acceptedAt # 0
                    /\ now - ents[h].acceptedAt < PORTAL_COOLDOWN)
                  => ents'[h].calls = ents[h].calls]_vars

\* a throwing callback ran once, at the time lastActivated holds, and the
\* next overlap, inside the window, was turned away
C10_Witness ==
    \E h \in Handles :
        /\ ents[h].kind = "portal" /\ ents[h].isActive
        /\ ents[h].dimension = "both" /\ ents[h].onActivate = "throws"
        /\ ents[h].calls = 1 /\ ents[h].overlaps = 2
        /\ ents[h].lastActivated = ents[h].acceptedAt
        /\ now - ents[h].acceptedAt < PORTAL_COOLDOWN
        /\ ~raised

\* ----------------------------------------------------------------- C11
\* C11: a step that collects an extra-life powerup raises the stored lives
\* by exactly 1, whatever the lives were (0 included), and takes the
\* powerup out of its group.
C11_ExtraLifeAddsOne ==
    [][\A h \in Handles :
          (OverlapStep(h) /\ Registered(h) /\ ents[h].kind = "powerup"
              /\ ents[h].effect = "extra-life" /\ ents'[h].destroyed)
          => /\ player'.lives = player.lives + 1
             /\ ~ents'[h].inGroup]_vars

\* ----------------------------------------------------------------- C12
\* C12: currentDimension is Light or Dark in every reachable state.
C12_DimensionLightOrDark == currentDimension \in {LIGHT, DARK}

\* Dark was entered, a coin was collected and a portal switched the
\* dimension
C12_Witness ==
    /\ currentDimension = DARK /\ player.set
    /\ \E h \in Handles : ents[h].kind = "coin" /\ ents[h].destroyed
    /\ \E h \in Handles : ents[h].kind = "portal" /\ ents[h].activations = 1

\* ----------------------------------------------------------------- C13
\* C13: switchDimension() takes Light to Dark and Dark to Light, and the
\* switch of the dimension it produced is the dimension it started from.
C13_SwitchToggles ==
    [][switchDimension
        => /\ currentDimension = LIGHT => currentDimension' = DARK
           /\ currentDimension = DARK => currentDimension' = LIGHT
           /\ toggled(currentDimension') = currentDimension]_vars

\* two portals without a callback each called switchDimension() once, and
\* the dimension is Light again
C13_Witness ==
    /\ currentDimension = LIGHT /\ player.set /\ ~raised
    /\ ents[1].kind = "portal" /\ ents[1].activations = 1
    /\ ents[2].kind = "portal" /\ ents[2].activations = 1

\* ----------------------------------------------------------------- C14
\* C14: setDimension(d) sets currentDimension to d; when it returns it has
\* re-applied the flags of every registered sprite, also when d was the
\* current dimension already, and a second setDimension(d) would change
\* neither currentDimension nor any flag.
C14_SetDimensionIdempotent ==
    [][\A d \in {LIGHT, DARK} :
          setDimension(d)
          => /\ currentDimension' = d
             /\ ~raised'
                  => /\ \A h \in Handles :
                          (ents'[h].inGroup /\ ~ents'[h].destroyed)
                          => /\ ents'[h].visible
                                  = shouldBeVisible(ents'[h].dimension, d)
                             /\ ents'[h].enable
                                  = shouldBeVisible(ents'[h].dimension, d)
                     /\ updateDimensionVisuals(ents', d) = ents']_vars

\* the dimension was set to Dark with a Dark sprite hidden by an earlier
\* pass and a Light-side portal to hide
C14_Witness ==
    /\ currentDimension = DARK /\ player.set /\ ~raised
    /\ \E h \in Handles :
          /\ ents[h].kind = "portal" /\ ents[h].dimension = "light"
          /\ ents[h].inGroup /\ ~ents[h].visible /\ ~ents[h].enable
    /\ \E h \in Handles :
          /\ ents[h].kind \in {"coin", "platform"} /\ ents[h].dimension = DARK
          /\ ents[h].visible /\ ents[h].enable /\ ents[h].overlaps = 0

\* ----------------------------------------------------------------- C15
\* C15: after every re-apply pass a registered sprite whose tag is missing
\* or is not one of the known tags is visible and physics-enabled, in
\* either dimension, and an overlap with such a coin collects it.
C15_UnknownTagIsBoth ==
    [][\A h \in Handles :
          (Registered(h) /\ ents[h].dimension \in RawTags)
          => /\ (player'.set
                   /\ (switchDimension \/ updateAllObjectVisibility
                          \/ setMainPlayer(3, 0, 200 * 64)))
                 => (ents'[h].visible /\ ents'[h].enable)
             /\ (OverlapStep(h) /\ ents[h].kind = "coin")
                 => ents'[h].destroyed]_vars

\* ----------------------------------------------------------------- C16
\* C16: a time-bounded effect is reverted without further input: once the
\* player is invincible (with the reversal due inside the modelled time)
\* the player is eventually not invincible, and once moveSpeed has left
\* the speed the player was built with it eventually returns to it.
C16_EffectsRevert ==
    /\ (player.set /\ player.invincible
            /\ \A t \in timers : t <= MaxEffectTime)
         ~> ~player.invincible
    /\ (player.set /\ player.moveSpeed # PLAYER_START_SPEED * 64)
         ~> (player.moveSpeed = PLAYER_START_SPEED * 64)

\* ----------------------------------------------------------------- C17
\* C17: while a reversal scheduled by the latest invincibility activation
\* is still pending, i.e. less than INVINCIBILITY_MS after that activation,
\* the player is invincible.
C17_TimerRestarts ==
    (player.set /\ timers # {}) => player.invincible

\* ----------------------------------------------------------------- C18
\* C18: isGameOver() is true exactly when the player's stored lives are
\* at most 0.
C18_GameOverAtZeroLives ==
    player.set => (isGameOver(player) <=> player.lives <= 0)

\* ----------------------------------------------------------------- C19
\* C19: the player's lives and score are integers >= 0 in every reachable
\* state.
C19_LivesScoreNonNegative ==
    player.lives \in Nat /\ player.score \in Nat

\* the lives were used up to the stored value 0 and coins were collected
C19_Witness ==
    /\ player.set /\ player.lives = 0 /\ player.score > 0
    /\ \E h \in Handles : ents[h].kind = "powerup" /\ ents[h].destroyed

\* ----------------------------------------------------------------- C20
\* C20: in the built-version scene, the collectible of a level at a tile
\* (level, row, col, type) changes the score at most once, whatever dimension
\* shifts are made, those made while a level transition is pending included.
C20_ScoredAtMostOnce ==
    \A t \in Tiles : qj.awards[t] <= 1

\* ----------------------------------------------------------------- C21
\* C21: switchDimension(), setDimension() and updateAllObjectVisibility()
\* return without raising in every state, before setMainPlayer included, and
\* whenever one of them changes currentDimension the visible/enable flags of
\* the registered entities are re-applied for the new dimension.
C21_ControllerNeverFails ==
    [][(\/ switchDimension
        \/ \E d \in {LIGHT, DARK} : setDimension(d)
        \/ updateAllObjectVisibility)
       => /\ ~raised'
          /\ currentDimension' # currentDimension
                => ents' = updateDimensionVisuals(ents, currentDimension')]_vars

\* ----------------------------------------------------------------- C22
\* C22: a level scene that has just been created is in the Light dimension,
\* whatever the dimension was when the previous level ended.
C22_LevelStartsInLight ==
    [][startNextScene => qj'.gameState.dimension = LIGHT]_vars

\* ----------------------------------------------------------------- C23
\* C23: for every stored tag (0, 1, "light", "dark", "both", missing,
\* unknown) and either current dimension the interaction-time predicate and
\* the predicate of the re-apply pass return the same result, and after a pass
\* a registered entity is visible and enabled exactly when the interaction-time
\* predicate accepts it.
C23_PredicatesAgree ==
    [][/\ \A h \in Handles : \A cur \in {LIGHT, DARK} :
             ents'[h].kind # "none" =>
                (isObjectVisibleInCurrentDimension(ents'[h].dimension, cur)
                    <=> shouldBeVisible(ents'[h].dimension, cur))
       /\ (player.set /\ (switchDimension \/ updateAllObjectVisibility)) =>
             \A h \in Handles :
                (ents'[h].inGroup /\ ~ents'[h].destroyed) =>
                   ((ents'[h].visible /\ ents'[h].enable)
                       <=> isObjectVisibleInCurrentDimension(ents'[h].dimension,
                                                             currentDimension'))]_vars

\* a "light" coin refused at interaction time in Dark and hidden by the pass,
\* next to a coin with an unknown tag that the pass hid as well
C23_Witness ==
    /\ player.set
    /\ currentDimension = DARK
    /\ \E h, g \in Handles :
          /\ ents[h].kind = "coin" /\ ents[h].dimension = "light"
          /\ ents[h].overlaps > 0 /\ ~ents[h].destroyed
          /\ ~ents[h].visible /\ ~ents[h].enable
          /\ ents[g].kind = "coin" /\ ents[g].dimension = "LIGHT"
          /\ ~ents[g].visible /\ ~ents[g].enable

\* ----------------------------------------------------------------- C24
\* C24: a player who keeps falling out of the world and collects no extra
\* life eventually reaches game over (isGameOver() true), from any starting
\* number of lives.
C24_GameOverReached ==
    player.set ~> isGameOver(player)

\* ----------------------------------------------------------------- C25
\* an overlap with portal h that the design accepts: the portal is active,
\* belongs to the current dimension and is outside its cooldown
AcceptedOverlap(h) ==
    /\ OverlapStep(h)
    /\ ents[h].kind = "portal"
    /\ ents[h].isActive
    /\ isObjectVisibleInCurrentDimension(ents[h].dimension, currentDimension)
    /\ (ents[h].lastActivated = 0 \/ now - ents[h].lastActivated >= PORTAL_COOLDOWN)

\* C25: an accepted activation of a portal without a callback toggles
\* currentDimension exactly once and re-applies visibility to every registered
\* entity; an overlap with a portal that has a callback leaves
\* currentDimension as it is.
C25_FallbackSwitch ==
    [][\A h \in Handles :
          /\ (AcceptedOverlap(h) /\ ents[h].onActivate = "null") =>
                /\ currentDimension' = toggled(currentDimension)
                /\ currentDimension' # currentDimension
                /\ \A g \in Handles :
                      (ents'[g].inGroup /\ ~ents'[g].destroyed) =>
                         /\ ents'[g].visible = shouldBeVisible(ents'[g].dimension, currentDimension')
                         /\ ents'[g].enable = ents'[g].visible
          /\ (OverlapStep(h) /\ ents[h].kind = "portal" /\ ents[h].onActivate # "null") =>
                currentDimension' = currentDimension]_vars

\* a "light" portal without a callback took the player to Dark, where the
\* pass has hidden it
C25_Witness ==
    /\ currentDimension = DARK
    /\ \E h \in Handles :
          /\ ents[h].kind = "portal" /\ ents[h].onActivate = "null"
          /\ ents[h].dimension = "light"
          /\ ents[h].activations = 1 /\ ents[h].acceptedAt = now
          /\ ~ents[h].visible /\ ~ents[h].enable

\* ----------------------------------------------------------------- C26
\* C26: Level2Scene.create() returns without raising, with the level's
\* platforms, coins and exit portal registered with the builder.
C26_Level2Built ==
    [][(PressSpace /\ scene'.key = LEVEL2_KEY) =>
          /\ ~raised'
          /\ \E h \in Handles : ents'[h].kind = "portal" /\ ents'[h].inGroup
          /\ \E h \in Handles : ents'[h].kind \in {"platform", "coin"} /\ ents'[h].inGroup]_vars

\* ----------------------------------------------------------------- C27
\* C27: one press of SPACE starts the next scene exactly once, however many
\* activations of the goesToNextLevel() portal were accepted before it.
C27_OneStartPerPress ==
    scene.starts <= 1

C29_ConsistentBetweenOperations ==
    player.set =>
       \A h \in Handles :
          Registered(h) =>
             /\ ents[h].visible = TruthTable(ents[h].dimension, currentDimension)
             /\ ents[h].enable = ents[h].visible

\* ----------------------------------------------------------------- C30
\* C30: switchDimension() and setDimension() change nothing but
\* currentDimension and the entities' visible/enable flags: score and lives,
\* the pending timers, the set of registered entities and every entity's tag,
\* coin value, powerup effect, isActive and lastActivated stay as they are.
C30_SwitchFrame ==
    [][(switchDimension \/ \E d \in {LIGHT, DARK} : setDimension(d)) =>
          /\ player' = player
          /\ timers' = timers
          /\ \A h \in Handles :
                [ents'[h] EXCEPT !.visible = ents[h].visible,
                                 !.enable = ents[h].enable] = ents[h]]_vars

\* in Dark after a switch: the score and the lives the player had, a coin
\* collected before, and a "light" portal that was activated and is now hidden
C30_Witness ==
    /\ currentDimension = DARK
    /\ player.set /\ player.score = 5 /\ player.lives = 1
    /\ \E h, g \in Handles :
          /\ ents[h].kind = "coin" /\ ents[h].destroyed /\ ents[h].value = 5
          /\ ents[g].kind = "portal" /\ ents[g].dimension = "light"
          /\ ents[g].inGroup /\ ents[g].isActive
          /\ ents[g].lastActivated = now /\ ents[g].calls = 1
          /\ ~ents[g].visible /\ ~ents[g].enable

====
